---- MODULE Spec2Model ----
(***************************************************************************)
(* A model of brunch's incremental-build bookkeeping:                      *)
(*   lib/fs_utils/file_list.js    FileList   (the manifest / scheduler)    *)
(*   lib/fs_utils/source_file.js  SourceFile (the per-file compile record) *)
(*                                                                         *)
(* Paths are sequences of one-character strings, so that normalize and     *)
(* startsWith are computed rather than assumed.  JavaScript runs handlers  *)
(* to completion: one action is one handler (an event listener, a timer    *)
(* callback, or the chain of promise reactions that follows a settlement,  *)
(* which the microtask queue drains before any other callback runs).       *)
(***************************************************************************)
EXTENDS Integers, Sequences, FiniteSets, TLC

VARIABLES
  files,        \* this.files: sequence of SourceFile identities
  assets,       \* this.assets: sequence of Asset records
  recs,         \* the heap of SourceFile objects, by identity
  compiling,    \* this.compiling: set of paths
  copying,      \* this.copying: set of paths
  compiled,     \* this.compiled: the paths mapped to true
  initial,      \* this.initial
  timers,       \* number of pending debounce timeouts
  runs,         \* pipeline runs started by file.compile() and not settled
  copyOps,      \* asset.copy() operations not settled, per path
  nodes,        \* updateMap compositions started and not finished
  content,      \* fcache: version of the cached content, per path
  events,       \* number of change/unlink events emitted so far
  lastOp,       \* the callback that ran last: the event it handled, what
                \* it emitted, whether it threw
  resetSinceReady,  \* history: a handler or a settlement has called
                    \* resetTimer since the last `ready`
  readySinceEvent,  \* history: `ready` was emitted since the last event
  owed,             \* history: an event scheduled work or the timer, and no
                    \* `ready` was emitted since
  readFailed,       \* history: some content read has failed
  igPath, igTest, igConv, igResult   \* one isIgnored(path, test) call

vars == <<files, assets, recs, compiling, copying, compiled, initial, timers,
          runs, copyOps, nodes, content, events, lastOp, resetSinceReady,
          readySinceEvent, owed, readFailed, igPath, igTest, igConv, igResult>>

manifestVars == <<files, assets, recs, compiling, copying, compiled, initial,
                  timers, runs, copyOps, nodes, content, events, lastOp,
                  resetSinceReady, readySinceEvent, owed, readFailed>>

ignoreVars == <<igPath, igTest, igConv, igResult>>

(***************************************************************************)
(* Bounds of the model.                                                    *)
(***************************************************************************)
MaxEvents == 2      \* change/unlink events the watcher emits
MaxSourceEvents == 3    \* the same when it watches source files only
MaxRecs == 2        \* SourceFile objects ever constructed
MaxPathLen == 2     \* length of the paths isIgnored is applied to
MaxListLen == 2     \* length of a list rule
MaxStack == 8       \* call-stack depth at which the recursion overflows

(***************************************************************************)
(* Paths.                                                                  *)
(***************************************************************************)
RECURSIVE SeqsUpTo(_, _)
SeqsUpTo(S, n) ==
  IF n = 0 THEN {<<>>}
  ELSE LET shorter == SeqsUpTo(S, n - 1)
       IN  shorter \cup {Append(s, c) : s \in shorter, c \in S}

Range(s) == {s[i] : i \in DOMAIN s}

Alphabet == {"a", "n", "/"}

IgPaths == SeqsUpTo(Alphabet, MaxPathLen) \ {<<>>}

\* The paths the watcher reports in the manifest model.
SrcA == <<"a">>
NpmJson == <<"n">>
IgnDep == <<"x", "d">>
Img == <<"i">>
Img2 == <<"j">>
IgnImg == <<"x", "i">>
Paths == {SrcA, NpmJson, IgnDep, Img, Img2, IgnImg}

\* The path of a disposed record (source_file.js:144).
NoPath == <<>>

(***************************************************************************)
(* Collaborators of FileList: deppack, the conventions, the config.        *)
(***************************************************************************)
\* deppack.isNpm: the path lies in the package-dependency namespace.
isNpm(path) == path # <<>> /\ path[1] = "n"

\* deppack.isNpmJSON: a JSON file of the package-dependency namespace.
isNpmJSON(path) == isNpm(path) /\ path[Len(path)] = "n"

\* norm.paths.allConfigFiles
configPaths == {<<"a", "/">>, <<"n", "/">>}

\* this.conventions.assets
isAsset(path) == path # <<>> /\ path[Len(path)] \in {"i", "j"}

(***************************************************************************)
(* Ignore rules, as the values `toString.call(test)` tells apart.          *)
(***************************************************************************)
Undefined == [type |-> "Undefined"]
RegExpRule(S) == [type |-> "RegExp", set |-> S]
FunctionRule(S) == [type |-> "Function", set |-> S]
StringRule(s) == [type |-> "String", str |-> s]
ArrayRule(items) == [type |-> "Array", items |-> items]

\* this.conventions.ignored of the manifest model: everything under x.
IgnoredConvention == ArrayRule(<<RegExpRule({}), StringRule(<<"x">>)>>)

\* path.normalize on paths without "." segments: runs of "/" collapse, and
\* the empty string becomes ".".
RECURSIVE collapse(_)
collapse(s) ==
  IF Len(s) <= 1 THEN s
  ELSE IF s[1] = "/" /\ s[2] = "/" THEN collapse(Tail(s))
  ELSE <<s[1]>> \o collapse(Tail(s))

normalize(s) == IF s = <<>> THEN <<".">> ELSE collapse(s)

\* string.lastIndexOf(substring, 0) === 0
startsWith(string, substring) ==
  /\ Len(substring) <= Len(string)
  /\ SubSeq(string, 1, Len(substring)) = substring

\* `!test`: undefined and the empty string are falsy.
Falsy(test) ==
  \/ test.type = "Undefined"
  \/ test.type = "String" /\ test.str = <<>>

Bool3(b) == IF b THEN "true" ELSE "false"

\* FileList.isIgnored(path, test) with conventions.ignored = conv, run with
\* `fuel` stack frames left: "true", "false", or "overflow" when the
\* recursion exhausts the stack (RangeError).
RECURSIVE isIgnoredRec(_, _, _, _)
RECURSIVE someRec(_, _, _, _, _)
someRec(path, items, i, conv, fuel) ==
  IF i > Len(items) THEN "false"
  ELSE LET r == isIgnoredRec(path, items[i], conv, fuel)
       IN  IF r = "false" THEN someRec(path, items, i + 1, conv, fuel)
           ELSE r

isIgnoredRec(path, test0, conv, fuel) ==
  IF fuel = 0 THEN "overflow"
  ELSE IF isNpm(path) THEN "false"
  ELSE LET test == IF Falsy(test0) THEN conv ELSE test0
       IN  IF path \in configPaths THEN "true"
           ELSE CASE test.type = "RegExp" -> Bool3(path \in test.set)
                  [] test.type = "Function" -> Bool3(path \in test.set)
                  [] test.type = "String" ->
                       Bool3(startsWith(normalize(path), normalize(test.str)))
                  [] test.type = "Array" ->
                       someRec(path, test.items, 1, conv, fuel - 1)
                  [] OTHER -> "false"

\* this.isIgnored(path) as _change and _unlink call it.
isIgnored(path) ==
  isIgnoredRec(path, Undefined, IgnoredConvention, MaxStack) = "true"

(***************************************************************************)
(* SourceFile (source_file.js).                                            *)
(*   source, data, node hold a content version: the record's value stems   *)
(*   from the pipeline result computed from that version of the file.      *)
(***************************************************************************)
Null == -1          \* null
EmptyStr == 0       \* ''

\* new SourceFile(path, ...): the fields the constructor sets.
SourceFile(path) ==
  [path |-> path, source |-> EmptyStr, data |-> EmptyStr, node |-> Null,
   dependencies |-> {}, compilationTime |-> "null", error |-> "null",
   removed |-> FALSE, disposed |-> FALSE]

\* Variant: dispose keeps the path of the record.
disposeKeepingPath(file) ==
  IF file.disposed THEN file
  ELSE [file EXCEPT !.data = EmptyStr, !.dependencies = {},
                    !.disposed = TRUE, !.node = Null, !.error = "null"]

\* SourceFile.dispose(): clears the fields and freezes the object.  On an
\* object that is frozen already the first assignment throws.
dispose(file) ==
  IF file.disposed THEN file
  ELSE [file EXCEPT !.path = NoPath, !.data = EmptyStr, !.dependencies = {},
                    !.disposed = TRUE, !.node = Null, !.error = "null"]

\* Object.freeze: in strict mode an assignment to a field of a frozen
\* object throws a TypeError and writes nothing.
Frozen(file) == file.disposed

\* What the pipeline settles with: a result, null, or a rejection.  A
\* result carries its dependencies and says whether its source map names
\* further source files (sourceMap.sources non-empty).
DepChoices == {{}, {SrcA, IgnDep}}
PipelineOutcomes ==
  [kind : {"ok"}, deps : DepChoices, sources : BOOLEAN]
    \cup {[kind |-> "null", deps |-> {}, sources |-> FALSE],
          [kind |-> "error", deps |-> {}, sources |-> FALSE]}

\* updateMap(path, compiled, wrapped, sourceMap): when the promise it
\* returns is fulfilled.  Promise.all of no reads is fulfilled at once, and
\* the reaction that stores the node (source_file.js:88-91) is then queued
\* two microtasks after the one that runs updateCache, ahead of the second
\* reaction of FileList.compile, which the rejection reaches three
\* microtasks after it.  With reads the promise waits for the file system.
updateMap(outcome) == IF outcome.sources THEN "after reads" ELSE "same drain"

\* updateCache(path, cache, error, result, wrap): the record afterwards,
\* what the call returns ("cache", "undefined", or "throw" for a TypeError
\* on a frozen record), and whether updateMap was started.
\* The assignments of updateCache on a record that accepts them.
updateCacheWrites(cache, outcome, ver) ==
  IF outcome.kind = "error" THEN
    [cache |-> [cache EXCEPT !.error = "error"], ret |-> "cache", map |-> FALSE]
  ELSE IF outcome.kind = "null" THEN
    [cache |-> [cache EXCEPT !.error = "null", !.data = Null,
                             !.compilationTime = "time"],
     ret |-> "cache", map |-> FALSE]
  ELSE
    [cache |-> [cache EXCEPT !.error = "null",
                             !.dependencies = outcome.deps,
                             !.source = ver,
                             !.compilationTime = "time",
                             !.data = ver],
     ret |-> "undefined", map |-> TRUE]

\* Variant: the record takes the assignments although it is frozen.
updateCacheUnfrozen(cache, outcome, ver) ==
  updateCacheWrites(cache, outcome, ver)

updateCache(cache, outcome, ver) ==
  IF Frozen(cache) THEN [cache |-> cache, ret |-> "throw", map |-> FALSE]
  ELSE updateCacheWrites(cache, outcome, ver)

\* The promise file.compile() returns (makeCompiler): the reaction to the
\* pipeline calls .then on what updateCache returned.  Neither the record
\* nor undefined has a then method, so the call throws a TypeError and the
\* promise is rejected, as it is when updateCache itself threw.
compilePromise(ret, outcome) ==
  IF ret = "promise"
    THEN IF outcome.kind = "error" THEN "rejected" ELSE "fulfilled"
    ELSE "rejected"

(***************************************************************************)
(* FileList (file_list.js): the parts of a handler, as functions of the    *)
(* manifest state S they read and write.                                   *)
(***************************************************************************)
\* clearTimeout(this.timer) and setTimeout: the pending timeouts afterwards.
\* Variant: setTimeout without clearTimeout.
resetTimerStacking(t) == t + 1
resetTimer(t) == (IF t > 0 THEN t - 1 ELSE t) + 1

\* Variant: a handler that does not reset the timer.
resetTimerSkipped(S) == S

\* this.resetTimer() inside a handler.
resetTimerS(S) == [S EXCEPT !.timers = resetTimer(@), !.didReset = TRUE]

\* hasFiles()
hasFiles(cmp, cpy) == Cardinality(cmp) > 0 \/ Cardinality(cpy) > 0

\* find(path): the first record of this.files with that path, 0 if none.
RECURSIVE findFrom(_, _, _, _)
findFrom(fs, rs, path, i) ==
  IF i > Len(fs) THEN 0
  ELSE IF rs[fs[i]].path = path THEN fs[i]
  ELSE findFrom(fs, rs, path, i + 1)

find(fs, rs, path) == findFrom(fs, rs, path, 1)

\* findAsset(path): index of the first asset with that path, 0 if none.
RECURSIVE findAssetFrom(_, _, _)
findAssetFrom(as, path, i) ==
  IF i > Len(as) THEN 0
  ELSE IF as[i].path = path THEN i
  ELSE findAssetFrom(as, path, i + 1)

findAsset(as, path) == findAssetFrom(as, path, 1)

\* A run of the pipeline not yet told apart from an equal one gets the
\* least free number k.
NewRun(rs, id, path, ver) ==
  LET same == {r \in rs : r.rec = id /\ r.path = path /\ r.ver = ver}
      k == CHOOSE n \in 0..Cardinality(same) : \A r \in same : r.k # n
  IN  [rec |-> id, path |-> path, ver |-> ver, k |-> k]

\* Variant: compile without the this.compiling.has(path) test.
compileUnguarded(S, id) ==
  LET file == S.recs[id]
      path == file.path
  IN  IF S.threw THEN S
      ELSE IF Frozen(file) THEN [S EXCEPT !.threw = TRUE]
      ELSE LET S1 == [S EXCEPT !.recs[id].removed = FALSE]
           IN  [S1 EXCEPT !.compiling = @ \cup {path},
                          !.runs = @ \cup {NewRun(S1.runs, id, path,
                                                  S1.content[path])}]

\* Variant: a compile of a path in flight replaces the run in flight.
compileSuperseding(S, id) ==
  LET file == S.recs[id]
      path == file.path
  IN  IF S.threw THEN S
      ELSE IF Frozen(file) THEN [S EXCEPT !.threw = TRUE]
      ELSE LET S1 == [S EXCEPT !.recs[id].removed = FALSE]
               run == [rec |-> id, path |-> path, ver |-> S1.content[path],
                       k |-> 0]
           IN  IF path \in S1.compiling
                 THEN resetTimerS([S1 EXCEPT !.runs =
                        {r \in @ : r.path # path} \cup {run}])
                 ELSE [S1 EXCEPT !.compiling = @ \cup {path},
                                 !.runs = @ \cup {run}]

\* FileList.compile(file)
compile(S, id) ==
  LET file == S.recs[id]
      path == file.path
  IN  IF S.threw THEN S
      ELSE IF Frozen(file) THEN [S EXCEPT !.threw = TRUE]
      ELSE LET S1 == [S EXCEPT !.recs[id].removed = FALSE]
           IN  IF path \in S1.compiling THEN resetTimerS(S1)
               ELSE [S1 EXCEPT !.compiling = @ \cup {path},
                               !.runs = @ \cup {NewRun(S1.runs, id, path,
                                                       S1.content[path])}]

\* parents.forEach(this.compile, this)
RECURSIVE compileAll(_, _, _)
compileAll(S, parents, i) ==
  IF i > Len(parents) THEN S
  ELSE compileAll(compile(S, parents[i]), parents, i + 1)

\* The filter of compileDependencyParents over this.files.
RECURSIVE parentsFrom(_, _, _)
parentsFrom(S, path, i) ==
  IF i > Len(S.files) THEN <<>>
  ELSE LET dependent == S.recs[S.files[i]]
           deps == dependent.dependencies
           rest == parentsFrom(S, path, i + 1)
       IN  IF /\ Cardinality(deps) > 0
              /\ path \in deps
              /\ dependent.path \notin S.compiled
           THEN <<S.files[i]>> \o rest
           ELSE rest

\* Variant: the filter keeps the records already compiled in this build.
RECURSIVE parentsFromMarked(_, _, _)
parentsFromMarked(S, path, i) ==
  IF i > Len(S.files) THEN <<>>
  ELSE LET dependent == S.recs[S.files[i]]
           deps == dependent.dependencies
           rest == parentsFromMarked(S, path, i + 1)
       IN  IF /\ Cardinality(deps) > 0
              /\ path \in deps
              /\ dependent.path \in S.compiled
           THEN <<S.files[i]>> \o rest
           ELSE rest

parentsMarked(S, path) == parentsFromMarked(S, path, 1)

parents(S, path) == parentsFrom(S, path, 1)

\* compileDependencyParents(path)
compileDependencyParents(S, path) ==
  IF S.threw THEN S ELSE compileAll(S, parents(S, path), 1)

\* _add(path, compiler, linters, isHelper)
add(S, path) ==
  [S EXCEPT !.recs = Append(@, SourceFile(path)),
            !.files = Append(@, Len(S.recs) + 1)]

\* The manifest state a handler starts from.
Here ==
  [recs |-> recs, files |-> files, compiling |-> compiling, runs |-> runs,
   compiled |-> compiled, content |-> content, timers |-> timers,
   didReset |-> FALSE, threw |-> FALSE]

\* What a handler leaves in the SourceFile part of the manifest.
Store(S) ==
  /\ recs' = S.recs
  /\ files' = S.files
  /\ compiling' = S.compiling
  /\ runs' = S.runs
  /\ content' = S.content
  /\ timers' = S.timers
  /\ resetSinceReady' = (resetSinceReady \/ S.didReset)

Op(op, path, emit, threw) ==
  [op |-> op, path |-> path, emit |-> emit, threw |-> threw,
   called |-> FALSE]

\* A change event handled by the callback of fcache.updateCache; called
\* tells whether it reached this.compile(sourceFile) (line 192).
ChangeOp(path, called, threw) ==
  [Op("change", path, "none", threw) EXCEPT !.called = called]

\* A callback that handles no event and emits nothing.
Other == Op("other", NoPath, "none", FALSE)

\* JavaScript values that Array.prototype.indexOf compares with ===.
JsString(s) == [tag |-> "string", value |-> s]
Asset(path) == [tag |-> "Asset", path |-> path]

\* array.indexOf(searchElement), 0-based, -1 when no element is === to it.
RECURSIVE indexOfFrom(_, _, _)
indexOfFrom(array, searchElement, i) ==
  IF i > Len(array) THEN 0 - 1
  ELSE IF array[i] = searchElement THEN i - 1
  ELSE indexOfFrom(array, searchElement, i + 1)

indexOf(array, searchElement) == indexOfFrom(array, searchElement, 1)

\* array.splice(start, deleteCount): what is left of the array.  A negative
\* start counts from the end.
splice(array, start, deleteCount) ==
  LET len == Len(array)
      from == IF start < 0 THEN (IF len + start < 0 THEN 0 ELSE len + start)
              ELSE IF start > len THEN len ELSE start
      n == IF deleteCount < 0 THEN 0
           ELSE IF deleteCount > len - from THEN len - from ELSE deleteCount
  IN  SubSeq(array, 1, from) \o SubSeq(array, from + n + 1, len)

(***************************************************************************)
(* The handlers.                                                           *)
(***************************************************************************)
\* The callback _change gives fcache.updateCache (lines 186-197): fcache
\* has stored the new content unless it reports an error.
\* Variant: the error of the read is looked at after the work.
changeSourceLateCheck(S, path, ignored, hasCompiler, error) ==
  LET S0 == [S EXCEPT !.content[path] = @ + 1]
      S1 == IF (~ignored /\ hasCompiler) \/ isNpmJSON(path)
              THEN LET found == find(S0.files, S0.recs, path)
                   IN  IF found # 0 THEN compile(S0, found)
                       ELSE compile(add(S0, path), Len(S0.recs) + 1)
              ELSE S0
      S2 == IF ~initial THEN compileDependencyParents(S1, path) ELSE S1
  IN  IF error \/ S2.threw THEN [S2 EXCEPT !.threw = TRUE]
      ELSE resetTimerS(S2)

\* Variant: the compile condition without `!ignored`.
changeSourceAnyway(S, path, ignored, hasCompiler, error) ==
  IF error THEN [S EXCEPT !.threw = TRUE] ELSE
  LET S0 == [S EXCEPT !.content[path] = @ + 1]
      S1 == IF hasCompiler \/ isNpmJSON(path)
              THEN LET found == find(S0.files, S0.recs, path)
                   IN  IF found # 0 THEN compile(S0, found)
                       ELSE compile(add(S0, path), Len(S0.recs) + 1)
              ELSE S0
      S2 == IF ~initial THEN compileDependencyParents(S1, path) ELSE S1
  IN  IF S2.threw THEN S2 ELSE resetTimerS(S2)

\* The callback of fcache.updateCache in _change.
changeSource(S, path, ignored, hasCompiler, error) ==
  IF error THEN [S EXCEPT !.threw = TRUE] ELSE
  LET S0 == [S EXCEPT !.content[path] = @ + 1]
      S1 == IF (~ignored /\ hasCompiler) \/ isNpmJSON(path)
              THEN LET found == find(S0.files, S0.recs, path)
                   IN  IF found # 0 THEN compile(S0, found)
                       ELSE compile(add(S0, path), Len(S0.recs) + 1)
              ELSE S0
      S2 == IF ~initial THEN compileDependencyParents(S1, path) ELSE S1
  IN  IF S2.threw THEN S2 ELSE resetTimerS(S2)

\* Variant: a file no compiler is registered for is copied like an asset.
ChangeCopyingUncompiled(path, hasCompiler, readOk) ==
  /\ events' = events + 1
  /\ readySinceEvent' = FALSE
  /\ UNCHANGED <<initial, compiled, nodes>>
  /\ LET ignored == isIgnored(path)
     IN  IF isAsset(path) \/ ~hasCompiler THEN
           /\ IF ~ignored
                THEN /\ assets' = IF findAsset(assets, path) # 0 THEN assets
                                  ELSE Append(assets, Asset(path))
                     /\ copying' = copying \cup {path}
                     /\ copyOps' = [copyOps EXCEPT ![path] = @ + 1]
                ELSE UNCHANGED <<assets, copying, copyOps>>
           /\ owed' = (owed \/ ~ignored)
           /\ lastOp' = Op("change", path, "none", FALSE)
           /\ UNCHANGED <<recs, files, compiling, runs, content, timers,
                          resetSinceReady, readFailed>>
         ELSE
           LET S == changeSource(Here, path, ignored, hasCompiler, ~readOk)
           IN  /\ Len(S.recs) <= MaxRecs
               /\ Store(S)
               /\ readFailed' = (readFailed \/ ~readOk)
               /\ owed' = (owed \/ readOk)
               /\ lastOp' = ChangeOp(path,
                                      /\ readOk
                                      /\ \/ ~ignored /\ hasCompiler
                                         \/ isNpmJSON(path),
                                      S.threw)
               /\ UNCHANGED <<assets, copying, copyOps>>

\* this.on('change', this._change)
Change(path, hasCompiler, readOk) ==
  /\ events' = events + 1
  /\ readySinceEvent' = FALSE
  /\ UNCHANGED <<initial, compiled, nodes>>
  /\ LET ignored == isIgnored(path)
     IN  IF isAsset(path) THEN
           /\ IF ~ignored
                THEN /\ assets' = IF findAsset(assets, path) # 0 THEN assets
                                  ELSE Append(assets, Asset(path))
                     /\ copying' = copying \cup {path}
                     /\ copyOps' = [copyOps EXCEPT ![path] = @ + 1]
                ELSE UNCHANGED <<assets, copying, copyOps>>
           /\ owed' = (owed \/ ~ignored)
           /\ lastOp' = Op("change", path, "none", FALSE)
           /\ UNCHANGED <<recs, files, compiling, runs, content, timers,
                          resetSinceReady, readFailed>>
         ELSE
           LET S == changeSource(Here, path, ignored, hasCompiler, ~readOk)
           IN  /\ Len(S.recs) <= MaxRecs
               /\ Store(S)
               /\ readFailed' = (readFailed \/ ~readOk)
               /\ owed' = (owed \/ readOk)
               /\ lastOp' = ChangeOp(path,
                                      /\ readOk
                                      /\ \/ ~ignored /\ hasCompiler
                                         \/ isNpmJSON(path),
                                      S.threw)
               /\ UNCHANGED <<assets, copying, copyOps>>

\* this.on('unlink', this._unlink)
Unlink(path) ==
  /\ events' = events + 1
  /\ readySinceEvent' = FALSE
  /\ owed' = TRUE
  /\ UNCHANGED <<initial, compiled, nodes, copying, copyOps, readFailed>>
  /\ LET ignored == isIgnored(path)
     IN  IF isAsset(path) THEN
           /\ assets' = IF ~ignored
                          THEN splice(assets, indexOf(assets, JsString(path)), 1)
                          ELSE assets
           /\ Store(resetTimerS(Here))
           /\ lastOp' = Op("unlink", path, "none", FALSE)
         ELSE
           LET file == find(files, recs, path)
               S1 == IF ignored THEN compileDependencyParents(Here, path)
                     ELSE IF file # 0 /\ ~recs[file].disposed
                       THEN [Here EXCEPT !.recs[file].removed = TRUE]
                       ELSE Here
               S == IF S1.threw THEN S1 ELSE resetTimerS(S1)
           IN  /\ Store(S)
               /\ lastOp' = Op("unlink", path, "none", S.threw)
               /\ UNCHANGED assets

\* Variant: .then(reset) with no rejection handler.
reactionsThenOnly(promise) ==
  [reset |-> promise = "fulfilled", done |-> promise = "fulfilled"]

\* The reactions FileList.compile attaches to the promise of file.compile():
\* .then(reset, reset) runs reset on either settlement and returns its
\* argument, so the second .then runs its callback in both cases.
reactions(promise) == [reset |-> TRUE, done |-> TRUE]

\* A pipeline run settles: the reaction in makeCompiler runs updateCache,
\* then the reactions of FileList.compile run; a node composed without
\* reads is stored in between.
SettleRun(run, outcome) ==
  /\ run \in runs
  /\ LET u == updateCache(recs[run.rec], outcome, run.ver)
         promise == compilePromise(u.ret, outcome)
         re == reactions(promise)
         early == u.map /\ updateMap(outcome) = "same drain"
     IN  /\ recs' = [recs EXCEPT ![run.rec] =
                        IF early THEN [u.cache EXCEPT !.node = run.ver]
                        ELSE u.cache]
         /\ nodes' = IF u.map /\ ~early
                       THEN nodes \cup {[rec |-> run.rec, ver |-> run.ver]}
                       ELSE nodes
         /\ runs' = runs \ {run}
         /\ compiling' = IF re.reset THEN compiling \ {run.path} ELSE compiling
         /\ timers' = IF re.reset THEN resetTimer(timers) ELSE timers
         /\ resetSinceReady' = (resetSinceReady \/ re.reset)
         /\ compiled' = IF re.done THEN compiled \cup {run.path} ELSE compiled
         /\ lastOp' = Op("settle", run.path,
                         IF re.done THEN "compiled" ELSE "none", ~re.done)
  /\ UNCHANGED <<files, assets, copying, copyOps, initial, content, events,
                 readySinceEvent, owed, readFailed>>

\* updateMap's promise settles: the node is composed and every source the
\* result's map names was read (ok), or the map names a source whose read
\* failed.
NodeDone(n, ok) ==
  /\ n \in nodes
  /\ nodes' = nodes \ {n}
  /\ LET cache == recs[n.rec]
         write == ok /\ ~Frozen(cache)
     IN  /\ recs' = IF write THEN [recs EXCEPT ![n.rec].node = n.ver] ELSE recs
         /\ lastOp' = Other
  /\ UNCHANGED <<files, assets, compiling, copying, compiled, initial, timers,
                 runs, copyOps, content, events, resetSinceReady,
                 readySinceEvent, owed, readFailed>>

\* asset.copy() settles: resetCopy runs on either settlement.
CopySettled(path, ok) ==
  /\ copyOps[path] > 0
  /\ copyOps' = [copyOps EXCEPT ![path] = @ - 1]
  /\ copying' = copying \ {path}
  /\ timers' = resetTimer(timers)
  /\ resetSinceReady' = TRUE
  /\ lastOp' = Other
  /\ UNCHANGED <<files, assets, recs, compiling, compiled, initial, runs,
                 nodes, content, events, readySinceEvent, owed, readFailed>>

\* The callback of the debounce timeout (lines 94-102).
TimerFire ==
  /\ timers > 0
  /\ files' = SelectSeq(files, LAMBDA id : ~recs[id].disposed)
  /\ IF hasFiles(compiling, copying)
       THEN /\ timers' = resetTimer(timers - 1)
            /\ lastOp' = Other
            /\ UNCHANGED <<compiled, resetSinceReady, readySinceEvent, owed>>
       ELSE /\ timers' = timers - 1
            /\ resetSinceReady' = FALSE
            /\ readySinceEvent' = TRUE
            /\ owed' = FALSE
            /\ compiled' = {}
            /\ lastOp' = Op("fire", NoPath, "ready", FALSE)
  /\ UNCHANGED <<assets, recs, compiling, copying, initial, runs, copyOps,
                 nodes, content, events, readFailed>>

\* The owner of a record disposes it.
Dispose(id) ==
  /\ id \in DOMAIN recs
  /\ recs' = [recs EXCEPT ![id] = dispose(@)]
  /\ lastOp' = Other
  /\ UNCHANGED <<files, assets, compiling, copying, compiled, initial, timers,
                 runs, copyOps, nodes, content, events, resetSinceReady,
                 readySinceEvent, owed, readFailed>>

\* The owner of the manifest ends the first build: fileList.initial = false.
EndInitial ==
  /\ initial
  /\ initial' = FALSE
  /\ lastOp' = Other
  /\ UNCHANGED <<files, assets, recs, compiling, copying, compiled, timers,
                 runs, copyOps, nodes, content, events, resetSinceReady,
                 readySinceEvent, owed, readFailed>>

(***************************************************************************)
(* The manifest after construction, and its behaviours.                    *)
(***************************************************************************)
InitManifest ==
  /\ files = <<>>
  /\ assets = <<>>
  /\ recs = <<>>
  /\ compiling = {}
  /\ copying = {}
  /\ compiled = {}
  /\ initial = TRUE
  /\ timers = 0
  /\ runs = {}
  /\ copyOps = [p \in Paths |-> 0]
  /\ nodes = {}
  /\ content = [p \in Paths |-> 0]
  /\ events = 0
  /\ lastOp = Other
  /\ resetSinceReady = FALSE
  /\ readySinceEvent = TRUE
  /\ owed = FALSE
  /\ readFailed = FALSE

Init ==
  /\ InitManifest
  /\ igPath = SrcA
  /\ igTest = Undefined
  /\ igConv = IgnoredConvention
  /\ igResult = "none"

SettleAny == \E run \in runs : \E outcome \in PipelineOutcomes : SettleRun(run, outcome)
CopyAny == \E path \in Paths : \E ok \in BOOLEAN : CopySettled(path, ok)

Next ==
  \/ \E path \in Paths : \E hasCompiler, readOk \in BOOLEAN :
       /\ events < MaxEvents
       /\ Change(path, hasCompiler, readOk) /\ UNCHANGED ignoreVars
  \/ \E path \in Paths :
       /\ events < MaxEvents
       /\ Unlink(path) /\ UNCHANGED ignoreVars
  \/ SettleAny /\ UNCHANGED ignoreVars
  \/ \E n \in nodes : \E ok \in BOOLEAN : NodeDone(n, ok) /\ UNCHANGED ignoreVars
  \/ CopyAny /\ UNCHANGED ignoreVars
  \/ TimerFire /\ UNCHANGED <<events, ignoreVars>>
  \/ \E id \in DOMAIN recs : Dispose(id) /\ UNCHANGED ignoreVars
  \/ EndInitial /\ UNCHANGED ignoreVars

Spec == Init /\ [][Next]_vars

\* The timeout fires after resetTime; every pipeline run and every copy the
\* behaviour is about settles.
LiveSpec ==
  /\ Spec
  /\ WF_vars(TimerFire /\ UNCHANGED <<events, ignoreVars>>)
  /\ WF_vars(SettleAny /\ UNCHANGED ignoreVars)
  /\ WF_vars(CopyAny /\ UNCHANGED ignoreVars)

\* The manifest of a project without assets: the watcher reports source
\* files only, over a longer run.
SourcePaths == {SrcA, IgnDep}

NextSources ==
  \/ \E path \in SourcePaths : \E hasCompiler, readOk \in BOOLEAN :
       /\ events < MaxSourceEvents
       /\ Change(path, hasCompiler, readOk) /\ UNCHANGED ignoreVars
  \/ \E path \in SourcePaths :
       /\ events < MaxSourceEvents
       /\ Unlink(path) /\ UNCHANGED ignoreVars
  \/ SettleAny /\ UNCHANGED ignoreVars
  \/ \E n \in nodes : \E ok \in BOOLEAN : NodeDone(n, ok) /\ UNCHANGED ignoreVars
  \/ TimerFire /\ UNCHANGED <<events, ignoreVars>>
  \/ \E id \in DOMAIN recs : Dispose(id) /\ UNCHANGED ignoreVars
  \/ EndInitial /\ UNCHANGED ignoreVars

SpecSources == Init /\ [][NextSources]_vars

(***************************************************************************)
(* isIgnored as a function: one call on a path, a rule and a               *)
(* conventions.ignored drawn from bounded sets.                            *)
(***************************************************************************)
HasA == {p \in IgPaths : "a" \in Range(p)}
EndsSlash == {p \in IgPaths : p[Len(p)] = "/"}

Atoms ==
  {RegExpRule(HasA), FunctionRule(EndsSlash), StringRule(<<>>),
   StringRule(<<"a">>), StringRule(<<"/", "/">>)}

InnerLists == {ArrayRule(s) : s \in SeqsUpTo(Atoms, 1)}

Rules ==
  Atoms \cup {ArrayRule(s) : s \in SeqsUpTo(Atoms \cup InnerLists, MaxListLen)}

Conventions ==
  {Undefined, RegExpRule(HasA), StringRule(<<"a">>),
   ArrayRule(<<FunctionRule(EndsSlash), StringRule(<<>>)>>)}

InitIgnore ==
  /\ InitManifest
  /\ igPath \in IgPaths
  /\ igTest \in Rules
  /\ igConv \in Conventions
  /\ igResult = "none"

CallIsIgnored ==
  /\ igResult = "none"
  /\ igResult' = isIgnoredRec(igPath, igTest, igConv, MaxStack)
  /\ UNCHANGED <<igPath, igTest, igConv, manifestVars>>

NextIgnore == CallIsIgnored

SpecIgnore == InitIgnore /\ [][NextIgnore]_vars

(***************************************************************************)
(* Properties.                                                             *)
(***************************************************************************)
RunsFor(rs, p) == {r \in rs : r.path = p}
Live(id) == id \in DOMAIN recs /\ ~recs[id].disposed
EventStep == events' = events + 1
UnlinkStep(p) == EventStep /\ lastOp'.op = "unlink" /\ lastOp'.path = p
ChangeStep(p) == EventStep /\ lastOp'.op = "change" /\ lastOp'.path = p

\* C1: for every path at most one pipeline run started through compile is
\* unsettled at any instant, and a step taken while the path is in the
\* compiling set starts no run for it, whichever record compile is given.
C1_AtMostOneRunPerPath ==
  /\ [](\A p \in Paths : /\ Cardinality(RunsFor(runs, p)) <= 1
                         /\ (RunsFor(runs, p) # {} => p \in compiling))
  /\ [][\A p \in compiling : RunsFor(runs', p) \subseteq RunsFor(runs, p)]_vars

\* C1 witness: a run for a.js is in flight on a record disposed since, and
\* the record created for a.js afterwards has been handed to compile
\* without a second run.
C1_Witness ==
  /\ Len(recs) = 2
  /\ recs[1].disposed /\ recs[2].path = SrcA
  /\ lastOp = ChangeOp(SrcA, TRUE, FALSE)
  /\ RunsFor(runs, SrcA) = {[rec |-> 1, path |-> SrcA, ver |-> 1, k |-> 0]}

\* C2: `ready` is emitted only by a timer callback that finds both sets
\* empty, after at least one resetTimer call by an event handler or a
\* settlement since the previous `ready`,
\* and it leaves no timeout pending; there is never more than one pending
\* timeout; and a pending timeout leads to a `ready`.
C2_ReadyOncePerQuietPeriod ==
  /\ [][lastOp'.emit = "ready" =>
          /\ timers > 0 /\ compiling = {} /\ copying = {}
          /\ resetSinceReady
          /\ timers' = 0]_vars
  /\ [](timers <= 1)
  /\ (timers > 0) ~> (lastOp.emit = "ready")

\* C2 witness: `ready` was emitted for a burst that compiled a file.
C2_Witness ==
  /\ lastOp.emit = "ready"
  /\ events = MaxEvents
  /\ \E id \in DOMAIN recs : recs[id].data > EmptyStr

NoStall ==
  (/\ runs = {}
   /\ \A p \in Paths : copyOps[p] = 0
   /\ (compiling \cup copying \cup compiled) # {}) => timers > 0

C4_UnlinkRemovesThatAsset ==
  [][\A p \in Paths :
       (UnlinkStep(p) /\ isAsset(p) /\ ~isIgnored(p)) =>
         assets' = SelectSeq(assets, LAMBDA a : a.path # p)]_vars

\* C5 as stated: unlinkEvent(d) for an ignored non-asset d that a live
\* record f lists as a dependency leaves a pipeline run for f in flight,
\* started by the event unless one was in flight already.
C5_UnlinkedDependencyRecompiles ==
  [][\A d \in Paths : \A id \in DOMAIN recs :
       (/\ UnlinkStep(d) /\ ~isAsset(d) /\ isIgnored(d)
        /\ Live(id) /\ d \in recs[id].dependencies) =>
         /\ recs[id].path \in compiling'
         /\ \E r \in runs' : /\ r.path = recs[id].path
                             /\ (r \notin runs => r.rec = id)]_vars

\* C5 amended: the same for a record f whose path is not marked
\* compiled-this-build; and the settlement of a run emits compiled(path).
C5_UnlinkedDependencyRecompilesUnmarked ==
  /\ [][\A d \in Paths : \A id \in DOMAIN recs :
          (/\ UnlinkStep(d) /\ ~isAsset(d) /\ isIgnored(d)
           /\ Live(id) /\ d \in recs[id].dependencies
           /\ recs[id].path \notin compiled) =>
            /\ recs[id].path \in compiling'
            /\ \E r \in runs' : /\ r.path = recs[id].path
                                /\ (r \notin runs => r.rec = id)]_vars
  /\ [][\A r \in runs : r \notin runs' =>
          lastOp' = Op("settle", r.path, "compiled", FALSE)]_vars

\* C5 witness: the unlink of the ignored dependency has started a run for
\* the record that lists it.
C5_Witness ==
  /\ lastOp = Op("unlink", IgnDep, "none", FALSE)
  /\ \E r \in runs : /\ IgnDep \in recs[r.rec].dependencies
                     /\ r.ver = recs[r.rec].data
                     /\ compiled = {}

\* C6: an ignored path never gets a SourceFile or Asset record, a pipeline
\* run or a copy, whatever compiler set the change event carries; the paths
\* compiled without regard to the ignore rule are dependency-namespace
\* paths, which isIgnored reports as not ignored.
C6_IgnoredNeverTracked ==
  /\ \A p \in Paths : isIgnored(p) =>
       /\ \A id \in DOMAIN recs : recs[id].path # p
       /\ \A i \in DOMAIN assets : assets[i].path # p
       /\ RunsFor(runs, p) = {}
       /\ copyOps[p] = 0
       /\ p \notin (compiling \cup copying \cup compiled)
  /\ \A p \in Paths \cup IgPaths : isNpmJSON(p) =>
       /\ isNpm(p)
       /\ \A conv \in Conventions \cup {IgnoredConvention} :
            isIgnoredRec(p, Undefined, conv, MaxStack) = "false"

\* C6 witness: a change event for the ignored dependency was handled, its
\* content read.
C6_Witness ==
  /\ lastOp = Op("change", IgnDep, "none", FALSE)
  /\ content[IgnDep] = MaxEvents

\* C7: the settlement of a pipeline run, whatever the outcome, removes its
\* path from the compiling set, restarts the timer, marks the path compiled
\* and emits compiled(path) without throwing; of the manifest only the
\* run's own record may differ between outcomes.
C7_SettlementIsUniform ==
  [][\A r \in runs : r \notin runs' =>
       /\ runs' = runs \ {r}
       /\ compiling' = compiling \ {r.path}
       /\ timers' = 1 /\ resetSinceReady'
       /\ compiled' = compiled \cup {r.path}
       /\ lastOp' = Op("settle", r.path, "compiled", FALSE)
       /\ \A id \in DOMAIN recs : id # r.rec => recs'[id] = recs[id]
       /\ UNCHANGED <<files, assets, copying, copyOps, initial, content,
                      events>>]_vars

\* C7 witness: a run that failed has settled and compiled(path) was emitted.
C7_Witness ==
  /\ lastOp.op = "settle" /\ lastOp.emit = "compiled"
  /\ \E id \in DOMAIN recs :
       /\ recs[id].path = lastOp.path
       /\ recs[id].error = "error"
       /\ recs[id].path \in compiled \ compiling

\* C8: a change event whose content read fails throws out of the handler
\* and leaves records, lists, runs, copies, sets, markers and the timer as
\* they were.
C8_ReadFailureChangesNothing ==
  [][\A p \in Paths : (ChangeStep(p) /\ lastOp'.threw) =>
       /\ readFailed'
       /\ UNCHANGED <<recs, files, assets, compiling, copying, compiled,
                      runs, copyOps, nodes, timers>>]_vars

\* C8 witness: the read failed for a.js while another file was compiling.
C8_Witness ==
  /\ lastOp = Op("change", SrcA, "none", TRUE)
  /\ readFailed
  /\ runs # {}

\* C9: a disposed record has path, data and dependencies empty and node and
\* error null, and no later step changes any field of it.
C9_DisposeIsTerminal ==
  /\ [](\A id \in DOMAIN recs : recs[id].disposed =>
          /\ recs[id].path = NoPath
          /\ recs[id].data = EmptyStr
          /\ recs[id].dependencies = {}
          /\ recs[id].node = Null
          /\ recs[id].error = "null")
  /\ [][\A id \in DOMAIN recs : recs[id].disposed => recs'[id] = recs[id]]_vars

\* C9 witness: the run that was in flight when its record was disposed has
\* settled.
C9_Witness ==
  /\ Len(recs) = 1 /\ recs[1].disposed
  /\ lastOp.op = "settle"
  /\ runs = {}

\* The decision C10 describes.
RECURSIVE RuleMatches(_, _)
RuleMatches(path, rule) ==
  CASE rule.type = "RegExp" -> path \in rule.set
    [] rule.type = "Function" -> path \in rule.set
    [] rule.type = "String" ->
         startsWith(normalize(path), normalize(rule.str))
    [] rule.type = "Array" ->
         \E i \in DOMAIN rule.items :
           /\ ~isNpm(path)
           /\ path \in configPaths \/ RuleMatches(path, rule.items[i])
    [] OTHER -> FALSE

ReferenceDecision(path, rule) ==
  IF isNpm(path) THEN FALSE
  ELSE IF path \in configPaths THEN TRUE
  ELSE RuleMatches(path, rule)

\* C10: isIgnored(path, rule) terminates and equals the reference decision
\* for every path and every rule.
C10_IsIgnoredMatchesReference ==
  igResult # "none" => igResult = Bool3(ReferenceDecision(igPath, igTest))

\* C11: whenever compiled(path) or ready is emitted, every live record
\* whose data stems from a pipeline result holds the node composed from
\* that same result: no settlement is reported while the composition of
\* the node is pending.
C11_NodeComposedWhenReported ==
  lastOp.emit # "none" =>
    \A id \in DOMAIN recs :
      (Live(id) /\ recs[id].data > EmptyStr) => recs[id].node = recs[id].data

\* C12: a path with a copy in flight is in the copying set, also when
\* several copies of it are in flight, and ready is not emitted meanwhile.
C12_CopyInFlightIsTracked ==
  \A p \in Paths : copyOps[p] > 0 =>
    /\ p \in copying
    /\ lastOp.emit # "ready"

\* C13: a change event of a path that is neither ignored nor dependency
\* JSON, with a compiler set and a successful read, leaves a pipeline run
\* for the path that started on the content the event stored.
C13_NoChangeLost ==
  [][\A p \in Paths :
       (/\ ChangeStep(p) /\ lastOp'.called /\ ~lastOp'.threw
        /\ ~isIgnored(p) /\ ~isNpmJSON(p)) =>
         \E r \in runs' : r.path = p /\ r.ver = content'[p]]_vars

\* C14: a live record that is marked removed stays marked by every step
\* that neither disposes it nor handles a change event of its own path.
C14_RemovedUntilPathReappears ==
  [][\A id \in DOMAIN recs :
       (/\ Live(id) /\ recs[id].removed
        /\ ~recs'[id].disposed
        /\ ~ChangeStep(recs[id].path)) => recs'[id].removed]_vars

\* A change event of path p whose handler gave the record it found for p
\* to compile while p was in the compiling set.
CoalescedCompile(p, id) ==
  /\ ChangeStep(p) /\ lastOp'.called /\ ~lastOp'.threw
  /\ id = find(files, recs, p) /\ id # 0
  /\ p \in compiling

\* What such a step leaves alone besides the record: the path's run and
\* membership, the copying set, the markers and the lists; it restarts the
\* timer and emits nothing; during the first build, where nothing
\* cascades, it starts no run at all.
CoalescedFrame(p) ==
  /\ timers' = 1
  /\ p \in compiling' /\ RunsFor(runs', p) = RunsFor(runs, p)
  /\ UNCHANGED <<copying, compiled, files, assets, copyOps, nodes>>
  /\ lastOp'.emit = "none"
  /\ initial => UNCHANGED <<compiling, runs>>

C16_NoCascadeInFirstBuild ==
  [][(initial /\ EventStep) =>
       \A r \in runs' \ runs : r.path = lastOp'.path]_vars

\* C17: once a record without a run in flight holds the node composed from
\* the result its data comes from, no later composition replaces it.
C17_NodeFollowsLatestResult ==
  [][\A id \in DOMAIN recs :
       (/\ Live(id) /\ ~recs'[id].disposed
        /\ recs[id].data > EmptyStr
        /\ recs[id].node = recs[id].data
        /\ \A r \in runs : r.rec # id) =>
         recs'[id].node = recs[id].node]_vars

\* C18: the settlement of a pipeline run on a live record leaves data and
\* node null and error null after a null result, and after a rejection the
\* error recorded and data and node as they were.
C18_NullResultClears ==
  [][\A r \in runs : (r \notin runs' /\ Live(r.rec)) =>
       LET was == recs[r.rec]
           cache == recs'[r.rec]
       IN  /\ (cache.data = Null /\ cache.error = "null") =>
                 cache.node = Null
           /\ cache.error = "error" =>
                 cache.data = was.data /\ cache.node = was.node]_vars

\* C19: the file list holds at most one live record per path and the asset
\* list at most one asset per path; find returns no disposed record for a
\* path the watcher reports, no cascade selects one, and so no handler
\* throws once the content is read.
C19_LookupUnambiguous ==
  /\ [](\A p \in Paths :
          /\ Cardinality({i \in DOMAIN files :
                            Live(files[i]) /\ recs[files[i]].path = p}) <= 1
          /\ Cardinality({i \in DOMAIN assets : assets[i].path = p}) <= 1
          /\ find(files, recs, p) # 0 => Live(find(files, recs, p))
          /\ \A i \in DOMAIN parents(Here, p) : Live(parents(Here, p)[i]))
  /\ [][(EventStep /\ lastOp'.threw) =>
          lastOp'.op = "change" /\ UNCHANGED <<content, recs>>]_vars

\* C19 witness: the list holds the disposed record that was created for
\* a.js and, behind it, the record a later change event created for a.js,
\* which is the one find returns.
C19_Witness ==
  /\ files = <<1, 2>>
  /\ recs[1].disposed /\ recs[1].compilationTime = "null"
  /\ Live(2) /\ recs[2].path = SrcA
  /\ find(files, recs, SrcA) = 2

\* C20: no path is in both the compiling and the copying set: only asset
\* paths are copied and only other paths have records, runs and compiles.
C20_CompilingCopyingDisjoint ==
  /\ compiling \cap copying = {}
  /\ \A p \in compiling : ~isAsset(p)
  /\ \A p \in copying : isAsset(p)
  /\ \A r \in runs : ~isAsset(r.path)
  /\ \A p \in Paths : copyOps[p] > 0 => isAsset(p)
  /\ \A id \in DOMAIN recs : Live(id) => ~isAsset(recs[id].path)
  /\ \A i \in DOMAIN assets : isAsset(assets[i].path)

\* C20 witness: an asset is being copied while a source file compiles.
C20_Witness ==
  /\ copying = {Img}
  /\ compiling # {}
  /\ events = MaxEvents

====
